---- MODULE Spec2Model ----
(***************************************************************************)
(* Terminal Pomodoro countdown timer.                                      *)
(*                                                                         *)
(* Two drivers are modelled:                                               *)
(*   "index"      src/index.js              fixed 40-cell bar, no resize   *)
(*   "responsive" src/unnamed/part_001      (second program, lines         *)
(*                140-329) bar and digits sized from the terminal, resize  *)
(*                listener; the first program of that file (lines 1-137)   *)
(*                has the same main                                        *)
(* and the layout function drawDisplay of both.                            *)
(*                                                                         *)
(* Node runs every callback to completion, so each handler is one action.  *)
(* process.exit(0) ends the process inside the handler that calls it: the  *)
(* statements after it in that handler are never executed.                 *)
(***************************************************************************)
EXTENDS Integers, Sequences, FiniteSets, TLC

\* ------------------------------------------------------------------ bounds
MaxMinutes == 2
MaxResizes == 2
MaxDen == 12
MaxColumns == 45
MaxTotal == 6
MaxDisplayColumns == 72
MaxDisplayRows == 20
MaxScale == 3
MaxArgLength == 3

\* ------------------------------------------------------- program constants
barMargin == 4
MinBarWidth == 10
DefaultColumns == 80
DefaultRows == 24
IndexBarWidth == 40
DefaultMinutes == 25
BaseHeight == 5
ReservedRows == 4
BaseWidthEstimate == 35

Variants == {"index", "responsive"}

\* Terminal sizes the display surface reports; 0 stands for a falsy value
\* (undefined when stdout is no TTY, or a terminal that reports 0).
ColumnsSet == {0, 12, 120}
RowsSet == {0, 3}

VARIABLES
    variant,            \* which driver runs
    durationMinutes,
    totalSeconds,
    timeLeftInSeconds,
    phase,              \* "Starting" | "Running" | "Exited"
    sigintHandler,      \* process.on('SIGINT', ...) has run
    resizeListener,     \* process.stdout.on('resize', redraw) is registered
    timerInterval,      \* the setInterval is active
    cursorHidden,       \* last cursor command on the terminal was "hide"
    columns, rows,      \* process.stdout.columns / rows
    lastFrame,          \* the frame drawDisplay wrote last (NoFrame before)
    written,            \* the writes of the handler that ran last, in order
    finalMessage,       \* "none" | "completed" | "cancelled"
    bellCount,          \* number of BEL bytes written
    exitStatus,         \* "running" | "exit0" | "SIGINT" | "uncaught"
    tickFirings,        \* number of runs of the setInterval callback
    resizes,            \* number of resize notifications
    interruptedIn,      \* phase in which the interrupt arrived ("none" before)
    lastEvent,          \* the handler that ran last
    rin, rout           \* input and result of a stand-alone drawDisplay call

driverVars == <<variant, durationMinutes, totalSeconds, timeLeftInSeconds,
                phase, sigintHandler, resizeListener, timerInterval, cursorHidden,
                columns, rows, lastFrame, written, finalMessage, bellCount,
                exitStatus, tickFirings, resizes, interruptedIn, lastEvent>>

vars == <<variant, durationMinutes, totalSeconds, timeLeftInSeconds,
          phase, sigintHandler, resizeListener, timerInterval, cursorHidden,
          columns, rows, lastFrame, written, finalMessage, bellCount,
          exitStatus, tickFirings, resizes, interruptedIn, lastEvent,
          rin, rout>>

\* ------------------------------------------------------------- primitives
Max(a, b) == IF a >= b THEN a ELSE b
Min(a, b) == IF a <= b THEN a ELSE b

\* Math.round(barWidth * progress) for progress = num/den, den > 0:
\* rounds to the nearest integer, halves towards +infinity.
MathRound(barWidth, progress) ==
    (2 * barWidth * progress[1] + progress[2]) \div (2 * progress[2])

\* The remainder operator % of JavaScript: the sign of the dividend.
JsRem(a, b) == IF a >= 0 THEN a % b ELSE 0 - ((0 - a) % b)

\* The decimal digits of n >= 0, most significant first: String(n).
RECURSIVE DecimalDigits(_)
DecimalDigits(n) ==
    IF n < 10 THEN <<n>> ELSE Append(DecimalDigits(n \div 10), n % 10)

\* String(n).padStart(2, '0')
PadStart2(n) ==
    LET d == DecimalDigits(n) IN IF Len(d) < 2 THEN <<0>> \o d ELSE d

\* `${String(minutes).padStart(2,'0')}:${String(seconds).padStart(2,'0')}`
\* as a sequence of characters; digits are 0..9 and the colon is ":".
Colon == 10
TimeString(minutes, seconds) == PadStart2(minutes) \o <<Colon>> \o PadStart2(seconds)

\* ------------------------------------------------------------ layout engine
NoFrame == [kind |-> "none"]

\* const barWidth = Math.max(10, terminalWidth - (barMargin * 2) - 2)
BarWidth(terminalWidth) == Max(MinBarWidth, terminalWidth - (barMargin * 2) - 2)

\* Mutant of FilledWidth: the bar is sized by the fraction still remaining.
FilledWidth_Remaining(barWidth, progress) ==
    MathRound(barWidth, <<progress[2] - progress[1], progress[2]>>)

\* const filledWidth = Math.round(barWidth * progress)
FilledWidth(barWidth, progress) == MathRound(barWidth, progress)

\* const emptyWidth = barWidth - filledWidth
EmptyWidth(barWidth, filledWidth) == barWidth - filledWidth

\* '█'.repeat(filledWidth) and '░'.repeat(emptyWidth): String.prototype.repeat
\* throws a RangeError on a negative count.
RepeatThrows(filledWidth, emptyWidth) == filledWidth < 0 \/ emptyWidth < 0

\* padding of centerContent: Math.max(0, Math.floor((terminalWidth - line.length) / 2))
CenterPadding(lineLength, terminalWidth) == Max(0, (terminalWidth - lineLength) \div 2)

\* Mutant of Scale: the lower limit of 1 is missing.
Scale_NoFloor(terminalWidth, terminalHeight) ==
    LET verticalScale == (terminalHeight - ReservedRows) \div BaseHeight
        horizontalScale == terminalWidth \div BaseWidthEstimate
    IN Min(verticalScale, horizontalScale)

\* const scale = Math.max(1, Math.min(verticalScale, horizontalScale))
Scale(terminalWidth, terminalHeight) ==
    LET verticalScale == (terminalHeight - ReservedRows) \div BaseHeight
        horizontalScale == terminalWidth \div BaseWidthEstimate
    IN Max(1, Min(verticalScale, horizontalScale))

\* drawDisplay of the responsive driver. cols and rws are what
\* process.stdout.columns and process.stdout.rows hold when it is called.
drawDisplay(progress, minutes, seconds, cols, rws) ==
    LET terminalWidth == IF cols # 0 THEN cols ELSE DefaultColumns
        terminalHeight == IF rws # 0 THEN rws ELSE DefaultRows
        barWidth == BarWidth(terminalWidth)
        filledWidth == FilledWidth(barWidth, progress)
        emptyWidth == EmptyWidth(barWidth, filledWidth)
        threw == RepeatThrows(filledWidth, emptyWidth)
        barLength == 1 + Max(0, filledWidth) + Max(0, emptyWidth) + 1
    IN [kind |-> "frame",
        threw |-> threw,
        terminalWidth |-> terminalWidth,
        terminalHeight |-> terminalHeight,
        progress |-> progress,
        barWidth |-> barWidth,
        filledWidth |-> filledWidth,
        emptyWidth |-> emptyWidth,
        barPadding |-> CenterPadding(barLength, terminalWidth),
        scale |-> Scale(terminalWidth, terminalHeight),
        timeString |-> TimeString(minutes, seconds)]

\* drawDisplay of src/index.js: a fixed 40-cell bar, unscaled digits, and no
\* use of the terminal size (recorded as 0).
drawDisplayIndex(progress, minutes, seconds) ==
    LET barWidth == IndexBarWidth
        filledWidth == FilledWidth(barWidth, progress)
        emptyWidth == EmptyWidth(barWidth, filledWidth)
    IN [kind |-> "frame",
        threw |-> RepeatThrows(filledWidth, emptyWidth),
        terminalWidth |-> 0,
        terminalHeight |-> 0,
        progress |-> progress,
        barWidth |-> barWidth,
        filledWidth |-> filledWidth,
        emptyWidth |-> emptyWidth,
        barPadding |-> 0,
        scale |-> 1,
        timeString |-> TimeString(minutes, seconds)]

\* ASCII_NUMBERS: the 5x5 glyphs of '0'..'9' (keys 0..9) and ':' (key Colon),
\* one row per line of the glyph, 1 for a block cell and 0 for a space.
GlyphKeys == <<0, 1, 2, 3, 4, 5, 6, 7, 8, 9, Colon>>
GlyphArt ==
  <<
    <<<<0, 1, 1, 1, 0>>,
      <<1, 0, 0, 0, 1>>,
      <<1, 0, 1, 0, 1>>,
      <<1, 0, 0, 0, 1>>,
      <<0, 1, 1, 1, 0>>>>,
    <<<<0, 0, 1, 0, 0>>,
      <<0, 1, 1, 0, 0>>,
      <<0, 0, 1, 0, 0>>,
      <<0, 0, 1, 0, 0>>,
      <<0, 1, 1, 1, 0>>>>,
    <<<<0, 1, 1, 1, 0>>,
      <<1, 0, 0, 0, 1>>,
      <<0, 0, 0, 1, 0>>,
      <<0, 0, 1, 0, 0>>,
      <<1, 1, 1, 1, 1>>>>,
    <<<<1, 1, 1, 1, 0>>,
      <<0, 0, 0, 0, 1>>,
      <<0, 0, 1, 1, 0>>,
      <<0, 0, 0, 0, 1>>,
      <<1, 1, 1, 1, 0>>>>,
    <<<<1, 0, 0, 0, 1>>,
      <<1, 0, 0, 0, 1>>,
      <<1, 1, 1, 1, 1>>,
      <<0, 0, 0, 0, 1>>,
      <<0, 0, 0, 0, 1>>>>,
    <<<<1, 1, 1, 1, 1>>,
      <<1, 0, 0, 0, 0>>,
      <<1, 1, 1, 1, 0>>,
      <<0, 0, 0, 0, 1>>,
      <<1, 1, 1, 1, 0>>>>,
    <<<<0, 1, 1, 1, 0>>,
      <<1, 0, 0, 0, 0>>,
      <<1, 1, 1, 1, 0>>,
      <<1, 0, 0, 0, 1>>,
      <<0, 1, 1, 1, 0>>>>,
    <<<<1, 1, 1, 1, 1>>,
      <<0, 0, 0, 0, 1>>,
      <<0, 0, 0, 1, 0>>,
      <<0, 0, 1, 0, 0>>,
      <<0, 0, 1, 0, 0>>>>,
    <<<<0, 1, 1, 1, 0>>,
      <<1, 0, 0, 0, 1>>,
      <<0, 1, 1, 1, 0>>,
      <<1, 0, 0, 0, 1>>,
      <<0, 1, 1, 1, 0>>>>,
    <<<<0, 1, 1, 1, 0>>,
      <<1, 0, 0, 0, 1>>,
      <<0, 1, 1, 1, 1>>,
      <<0, 0, 0, 0, 1>>,
      <<0, 1, 1, 1, 0>>>>,
    <<<<0, 0, 0, 0, 0>>,
      <<0, 0, 1, 0, 0>>,
      <<0, 0, 0, 0, 0>>,
      <<0, 0, 1, 0, 0>>,
      <<0, 0, 0, 0, 0>>>>
  >>
ASCII_NUMBERS == [c \in {GlyphKeys[i] : i \in 1..Len(GlyphKeys)} |->
    GlyphArt[CHOOSE i \in 1..Len(GlyphKeys) : GlyphKeys[i] = c]]

\* Cells of a line of the display: 0 space, 1 full block, 2 light shade,
\* 3 '[' and 4 ']'.
Repeat(cell, count) == [i \in 1..count |-> cell]

\* ASCII_NUMBERS[char] || ASCII_NUMBERS[':']
GlyphOf(char) ==
    IF char \in DOMAIN ASCII_NUMBERS THEN ASCII_NUMBERS[char] ELSE ASCII_NUMBERS[Colon]

\* row.split('').map(char => char.repeat(scale)).join('')
ScaleRow(row, scale) ==
    [j \in 1..(Len(row) * scale) |-> row[((j - 1) \div scale) + 1]]

\* scaleAsciiCharacter: the art itself for scale <= 1, otherwise every row
\* widened and pushed scale times.
scaleAsciiCharacter(charArt, scale) ==
    IF scale <= 1 THEN charArt
    ELSE [i \in 1..(Len(charArt) * scale) |->
             ScaleRow(charArt[((i - 1) \div scale) + 1], scale)]

\* Array.prototype.join of rows of cells with a separator
RECURSIVE Join(_, _)
Join(parts, sep) ==
    IF Len(parts) = 0 THEN <<>>
    ELSE IF Len(parts) = 1 THEN parts[1]
    ELSE parts[1] \o sep \o Join(Tail(parts), sep)

\* Mutant of generateScaledTimerRows: the separator is appended after every
\* character, the last one included (as src/index.js builds its rows).
generateScaledTimerRows_Trailing(timeString, scale) ==
    LET scaledArtParts == [k \in 1..Len(timeString) |->
                              scaleAsciiCharacter(GlyphOf(timeString[k]), scale)]
        scaledSpace == Repeat(0, scale * 2)
    IN [i \in 1..Len(scaledArtParts[1]) |->
           Join([k \in 1..Len(scaledArtParts) |-> scaledArtParts[k][i] \o scaledSpace],
                <<>>)]

\* generateScaledTimerRows: the scaled glyph of every character, joined row
\* by row with scale * 2 spaces between characters.
generateScaledTimerRows(timeString, scale) ==
    LET scaledArtParts == [k \in 1..Len(timeString) |->
                              scaleAsciiCharacter(GlyphOf(timeString[k]), scale)]
        scaledCharHeight == Len(scaledArtParts[1])
        scaledSpace == Repeat(0, scale * 2)
    IN [i \in 1..scaledCharHeight |->
           Join([k \in 1..Len(scaledArtParts) |-> scaledArtParts[k][i]], scaledSpace)]

\* centerContent for an array of lines: every line behind its own padding.
centerContent(lines, terminalWidth) ==
    [i \in 1..Len(lines) |->
        Repeat(0, CenterPadding(Len(lines[i]), terminalWidth)) \o lines[i]]

\* fullDisplay of drawDisplay, as its lines: the centered bar, an empty line,
\* the centered rows of the timer. frame is what drawDisplay computed.
FullDisplay(frame) ==
    LET barContent == <<3>> \o Repeat(1, frame.filledWidth)
                      \o Repeat(2, frame.emptyWidth) \o <<4>>
        centeredBar == centerContent(<<barContent>>, frame.terminalWidth)
        timerRows == generateScaledTimerRows(frame.timeString, frame.scale)
        centeredTimer == centerContent(timerRows, frame.terminalWidth)
    IN centeredBar \o <<<<>>>> \o centeredTimer

\* Mutant of Progress: the fraction still remaining instead of the elapsed one.
Progress_Remaining(timeLeft, total) ==
    IF total > 0 THEN <<timeLeft, total>> ELSE <<0, 1>>

\* The elapsed fraction (totalSeconds - timeLeft) / totalSeconds as <<num, den>>,
\* 0 when totalSeconds is 0.
Progress(timeLeft, total) ==
    IF total > 0 THEN <<total - timeLeft, total>> ELSE <<0, 1>>

\* Mutant of redraw: the frame is computed from the value before the decrement.
redraw_Stale(timeLeft, total, cols, rws) ==
    drawDisplay(Progress(timeLeft + 1, total), (timeLeft + 1) \div 60,
                JsRem(timeLeft + 1, 60), cols, rws)

\* redraw of the responsive driver, for the current timeLeftInSeconds.
redraw(timeLeft, total, cols, rws) ==
    drawDisplay(Progress(timeLeft, total), timeLeft \div 60, JsRem(timeLeft, 60), cols, rws)

\* The tick of src/index.js computes the same three values inline.
redrawIndex(timeLeft, total) ==
    drawDisplayIndex(<<total - timeLeft, total>>, timeLeft \div 60, JsRem(timeLeft, 60))

\* -------------------------------------------------------- countdown driver
\* One write to the terminal, with the registrations in force when it is made.
W(text, interval, listener) ==
    [text |-> text, timerInterval |-> interval, resizeListener |-> listener]

\* Characters of a command-line argument, one string each.
DigitChars == <<"0", "1", "2", "3", "4", "5", "6", "7", "8", "9">>
IsDigit(c) == \E d \in 1..10 : DigitChars[d] = c
DigitOf(c) == (CHOOSE d \in 1..10 : DigitChars[d] = c) - 1

\* String(m) as characters
ToChars(m) ==
    LET d == DecimalDigits(m) IN [i \in 1..Len(d) |-> DigitChars[d[i] + 1]]

NaN == [nan |-> TRUE, value |-> 0]

\* The value of the longest prefix of digits of str, given the value acc of
\* the digits read so far.
RECURSIVE DigitPrefixValue(_, _)
DigitPrefixValue(str, acc) ==
    IF Len(str) = 0 \/ ~IsDigit(str[1]) THEN acc
    ELSE DigitPrefixValue(Tail(str), 10 * acc + DigitOf(str[1]))

RECURSIVE TrimStart(_)
TrimStart(str) ==
    IF Len(str) > 0 /\ str[1] = " " THEN TrimStart(Tail(str)) ELSE str

\* parseInt(str, 10): leading white space is skipped, a sign is read, then
\* the longest prefix of digits; NaN when there is no digit there.
parseInt(str) ==
    LET t == TrimStart(str)
        signed == Len(t) > 0 /\ t[1] \in {"-", "+"}
        sign == IF Len(t) > 0 /\ t[1] = "-" THEN 0 - 1 ELSE 1
        body == IF signed THEN Tail(t) ELSE t
    IN IF Len(body) = 0 \/ ~IsDigit(body[1]) THEN NaN
       ELSE [nan |-> FALSE, value |-> sign * DigitPrefixValue(body, 0)]

\* Mutant of ParseDuration: only negative durations are replaced by the default.
ParseDuration_ZeroAllowed(args) ==
    LET parsed == IF Len(args) = 0 THEN NaN ELSE parseInt(args[1])
    IN IF parsed.nan \/ parsed.value < 0 THEN DefaultMinutes ELSE parsed.value

\* let durationMinutes = parseInt(args[0], 10), then the default: NaN (also
\* of an absent argument), zero and negative durations become 25 minutes.
\* args is process.argv.slice(2): empty, or the argument as its characters.
ParseDuration(args) ==
    LET parsed == IF Len(args) = 0 THEN NaN ELSE parseInt(args[1])
    IN IF parsed.nan \/ parsed.value <= 0 THEN DefaultMinutes ELSE parsed.value

\* The command lines the driver is started with: no argument, a word, zero,
\* a negative number, and every whole number of minutes up to MaxMinutes.
ArgSet ==
    {<<>>, <<<<"a">>>>, <<<<"0">>>>, <<<<"-", "1">>>>}
    \cup {<<ToChars(m)>> : m \in 1..MaxMinutes}

\* The variables of a stand-alone drawDisplay call, unused by the driver.
NoRender == rin = NoFrame /\ rout = NoFrame

\* main up to the setTimeout call: the duration is read, the status line is
\* printed and the grace delay is pending.
Init ==
    /\ variant \in Variants
    /\ durationMinutes \in {ParseDuration(a) : a \in ArgSet}
    /\ totalSeconds = durationMinutes * 60
    /\ timeLeftInSeconds = totalSeconds
    /\ phase = "Starting"
    /\ sigintHandler = FALSE
    /\ resizeListener = FALSE
    /\ timerInterval = FALSE
    /\ cursorHidden = FALSE
    /\ columns \in ColumnsSet
    /\ rows \in RowsSet
    /\ lastFrame = NoFrame
    /\ written = <<W("status", FALSE, FALSE)>>
    /\ finalMessage = "none"
    /\ bellCount = 0
    /\ exitStatus = "running"
    /\ tickFirings = 0
    /\ resizes = 0
    /\ interruptedIn = "none"
    /\ lastEvent = "main"
    /\ NoRender

\* A drawDisplay call inside a handler: the frame is written, or the
\* RangeError of repeat is uncaught and the process dies. prefix is what
\* the handler wrote before the call; interval and listener are the
\* registrations in force at the call.
Draw(prefix, frame, interval, listener) ==
    /\ lastFrame' = IF frame.threw THEN lastFrame ELSE frame
    /\ exitStatus' = IF frame.threw THEN "uncaught" ELSE exitStatus
    /\ phase' = IF frame.threw THEN "Exited" ELSE "Running"
    /\ written' = IF frame.threw THEN prefix
                  ELSE Append(prefix, W("frame", interval, listener))

\* Mutant of GraceElapsedIndex: the initial drawDisplay call is missing.
GraceElapsedIndex_NoInitialDraw ==
    /\ variant = "index"
    /\ phase = "Starting"
    /\ lastEvent' = "grace"
    /\ cursorHidden' = TRUE
    /\ sigintHandler' = TRUE
    /\ timerInterval' = TRUE
    /\ phase' = "Running"
    /\ written' = <<W("hide", FALSE, FALSE)>>
    /\ UNCHANGED <<variant, durationMinutes, totalSeconds, timeLeftInSeconds,
                   resizeListener, columns, rows, finalMessage, bellCount,
                   tickFirings, resizes, interruptedIn, rin, rout,
                   lastFrame, exitStatus>>

\* The setTimeout callback of src/index.js: hide the cursor, register the
\* SIGINT handler, start the interval, draw the initial frame.
GraceElapsedIndex ==
    /\ variant = "index"
    /\ phase = "Starting"
    /\ lastEvent' = "grace"
    /\ cursorHidden' = TRUE
    /\ sigintHandler' = TRUE
    /\ timerInterval' = TRUE
    /\ Draw(<<W("hide", FALSE, FALSE)>>,
            drawDisplayIndex(<<0, 1>>, durationMinutes, 0), TRUE, resizeListener)
    /\ UNCHANGED <<variant, durationMinutes, totalSeconds, timeLeftInSeconds,
                   resizeListener, columns, rows, finalMessage, bellCount,
                   tickFirings, resizes, interruptedIn, rin, rout>>

\* Mutant of GraceElapsedResponsive: setInterval is not called.
GraceElapsedResponsive_NoInterval ==
    /\ variant = "responsive"
    /\ phase = "Starting"
    /\ lastEvent' = "grace"
    /\ cursorHidden' = TRUE
    /\ sigintHandler' = TRUE
    /\ resizeListener' = TRUE
    /\ timerInterval' = FALSE
    /\ Draw(<<W("hide", FALSE, FALSE)>>,
            redraw(timeLeftInSeconds, totalSeconds, columns, rows), FALSE, TRUE)
    /\ UNCHANGED <<variant, durationMinutes, totalSeconds, timeLeftInSeconds,
                   columns, rows, finalMessage, bellCount,
                   tickFirings, resizes, interruptedIn, rin, rout>>

\* The setTimeout callback of the responsive driver: also registers redraw
\* as the resize listener, and the initial frame is drawn by redraw.
GraceElapsedResponsive ==
    /\ variant = "responsive"
    /\ phase = "Starting"
    /\ lastEvent' = "grace"
    /\ cursorHidden' = TRUE
    /\ sigintHandler' = TRUE
    /\ resizeListener' = TRUE
    /\ timerInterval' = TRUE
    /\ Draw(<<W("hide", FALSE, FALSE)>>,
            redraw(timeLeftInSeconds, totalSeconds, columns, rows), TRUE, TRUE)
    /\ UNCHANGED <<variant, durationMinutes, totalSeconds, timeLeftInSeconds,
                   columns, rows, finalMessage, bellCount,
                   tickFirings, resizes, interruptedIn, rin, rout>>

\* Mutant of TimeIsUp: the comparison is strict.
TimeIsUp_Strict(timeLeft) == timeLeft < 0

\* if (timeLeftInSeconds <= 0)
TimeIsUp(timeLeft) == timeLeft <= 0

\* Mutant of Complete: the resize listener is not removed.
Complete_KeepsListener(prefix) ==
    /\ timerInterval' = FALSE
    /\ resizeListener' = resizeListener
    /\ cursorHidden' = FALSE
    /\ finalMessage' = "completed"
    /\ bellCount' = bellCount + 1
    /\ written' = prefix \o <<W("show", timerInterval', resizeListener'),
                              W("completed", timerInterval', resizeListener')>>
    /\ exitStatus' = "exit0"
    /\ phase' = "Exited"

\* The completion branch of both tick handlers: clearInterval, (responsive)
\* removeListener, show the cursor, write the message with the bell, exit(0).
\* prefix is what the handler wrote before it.
Complete(prefix) ==
    /\ timerInterval' = FALSE
    /\ resizeListener' = FALSE
    /\ cursorHidden' = FALSE
    /\ finalMessage' = "completed"
    /\ bellCount' = bellCount + 1
    /\ written' = prefix \o <<W("show", timerInterval', resizeListener'),
                              W("completed", timerInterval', resizeListener')>>
    /\ exitStatus' = "exit0"
    /\ phase' = "Exited"

\* Mutant of TickIndex: the time left is tested before the decrement, as in
\* the responsive driver.
TickIndex_CheckFirst ==
    /\ variant = "index"
    /\ phase = "Running"
    /\ timerInterval
    /\ lastEvent' = "tick"
    /\ tickFirings' = tickFirings + 1
    /\ IF TimeIsUp(timeLeftInSeconds)
       THEN /\ Complete(<<>>)
            /\ UNCHANGED <<timeLeftInSeconds, lastFrame>>
       ELSE /\ timeLeftInSeconds' = timeLeftInSeconds - 1
            /\ Draw(<<>>, redrawIndex(timeLeftInSeconds', totalSeconds),
                    timerInterval, resizeListener)
            /\ UNCHANGED <<timerInterval, resizeListener, cursorHidden,
                           finalMessage, bellCount>>
    /\ UNCHANGED <<variant, durationMinutes, totalSeconds, sigintHandler,
                   columns, rows, resizes, interruptedIn, rin, rout>>

\* The setInterval callback of src/index.js: decrement, draw, then complete
\* when the time left is <= 0.
TickIndex ==
    /\ variant = "index"
    /\ phase = "Running"
    /\ timerInterval
    /\ lastEvent' = "tick"
    /\ tickFirings' = tickFirings + 1
    /\ timeLeftInSeconds' = timeLeftInSeconds - 1
    /\ LET frame == redrawIndex(timeLeftInSeconds', totalSeconds)
       IN IF ~frame.threw /\ TimeIsUp(timeLeftInSeconds')
          THEN /\ lastFrame' = frame
               /\ Complete(<<W("frame", timerInterval, resizeListener)>>)
          ELSE /\ Draw(<<>>, frame, timerInterval, resizeListener)
               /\ UNCHANGED <<timerInterval, resizeListener, cursorHidden,
                              finalMessage, bellCount>>
    /\ UNCHANGED <<variant, durationMinutes, totalSeconds, sigintHandler,
                   columns, rows, resizes, interruptedIn, rin, rout>>

\* Mutant of TickResponsive: the completion branch does not end the handler,
\* the decrement and the redraw below it run as well.
TickResponsive_FallsThrough ==
    /\ variant = "responsive"
    /\ phase = "Running"
    /\ timerInterval
    /\ lastEvent' = "tick"
    /\ tickFirings' = tickFirings + 1
    /\ timeLeftInSeconds' = timeLeftInSeconds - 1
    /\ IF TimeIsUp(timeLeftInSeconds)
       THEN /\ timerInterval' = FALSE
            /\ resizeListener' = FALSE
            /\ cursorHidden' = FALSE
            /\ finalMessage' = "completed"
            /\ bellCount' = bellCount + 1
            /\ Draw(<<W("show", FALSE, FALSE), W("completed", FALSE, FALSE)>>,
                    redraw(timeLeftInSeconds', totalSeconds, columns, rows),
                    FALSE, FALSE)
       ELSE /\ Draw(<<>>, redraw(timeLeftInSeconds', totalSeconds, columns, rows),
                    timerInterval, resizeListener)
            /\ UNCHANGED <<timerInterval, resizeListener, cursorHidden,
                           finalMessage, bellCount>>
    /\ UNCHANGED <<variant, durationMinutes, totalSeconds, sigintHandler,
                   columns, rows, resizes, interruptedIn, rin, rout>>

\* The setInterval callback of the responsive driver: complete when the time
\* left is already <= 0, otherwise decrement and redraw.
TickResponsive ==
    /\ variant = "responsive"
    /\ phase = "Running"
    /\ timerInterval
    /\ lastEvent' = "tick"
    /\ tickFirings' = tickFirings + 1
    /\ IF TimeIsUp(timeLeftInSeconds)
       THEN /\ Complete(<<>>)
            /\ UNCHANGED <<timeLeftInSeconds, lastFrame>>
       ELSE /\ timeLeftInSeconds' = timeLeftInSeconds - 1
            /\ Draw(<<>>, redraw(timeLeftInSeconds', totalSeconds, columns, rows),
                    timerInterval, resizeListener)
            /\ UNCHANGED <<timerInterval, resizeListener, cursorHidden,
                           finalMessage, bellCount>>
    /\ UNCHANGED <<variant, durationMinutes, totalSeconds, sigintHandler,
                   columns, rows, resizes, interruptedIn, rin, rout>>

\* Mutant of Resize: the resize listener advances the countdown like a tick.
Resize_Decrements ==
    /\ phase \in {"Starting", "Running"}
    /\ resizes < MaxResizes
    /\ resizes' = resizes + 1
    /\ lastEvent' = "resize"
    /\ \E c \in ColumnsSet, r \in RowsSet :
          /\ <<c, r>> # <<columns, rows>>
          /\ columns' = c
          /\ rows' = r
    /\ IF resizeListener
       THEN /\ timeLeftInSeconds' = timeLeftInSeconds - 1
            /\ Draw(<<>>, redraw(timeLeftInSeconds', totalSeconds, columns', rows'),
                    timerInterval, resizeListener)
       ELSE UNCHANGED <<timeLeftInSeconds, lastFrame, exitStatus, phase, written>>
    /\ UNCHANGED <<variant, durationMinutes, totalSeconds,
                   sigintHandler, resizeListener, timerInterval, cursorHidden,
                   finalMessage, bellCount, tickFirings, interruptedIn, rin, rout>>

\* The terminal is resized: stdout's columns and rows are refreshed, then the
\* 'resize' event runs redraw if it is registered as a listener.
Resize ==
    /\ phase \in {"Starting", "Running"}
    /\ resizes < MaxResizes
    /\ resizes' = resizes + 1
    /\ lastEvent' = "resize"
    /\ \E c \in ColumnsSet, r \in RowsSet :
          /\ <<c, r>> # <<columns, rows>>
          /\ columns' = c
          /\ rows' = r
    /\ IF resizeListener
       THEN Draw(<<>>, redraw(timeLeftInSeconds, totalSeconds, columns', rows'),
                 timerInterval, resizeListener)
       ELSE UNCHANGED <<lastFrame, exitStatus, phase, written>>
    /\ UNCHANGED <<variant, durationMinutes, totalSeconds, timeLeftInSeconds,
                   sigintHandler, resizeListener, timerInterval, cursorHidden,
                   finalMessage, bellCount, tickFirings, interruptedIn, rin, rout>>

\* Mutant of SigintHandler: process.exit(0) is missing.
SigintHandler_NoExit ==
    /\ phase \in {"Starting", "Running"}
    /\ sigintHandler
    /\ lastEvent' = "sigint"
    /\ interruptedIn' = phase
    /\ cursorHidden' = FALSE
    /\ finalMessage' = "cancelled"
    /\ written' = <<W("show", timerInterval, resizeListener),
                    W("cancelled", timerInterval, resizeListener)>>
    /\ UNCHANGED <<variant, durationMinutes, totalSeconds, timeLeftInSeconds,
                   sigintHandler, resizeListener, timerInterval, columns, rows,
                   lastFrame, bellCount, tickFirings, resizes, rin, rout,
                   exitStatus, phase>>

\* Mutant of SigintHandler: the cursor is not shown again.
SigintHandler_NoShow ==
    /\ phase \in {"Starting", "Running"}
    /\ sigintHandler
    /\ lastEvent' = "sigint"
    /\ interruptedIn' = phase
    /\ finalMessage' = "cancelled"
    /\ written' = <<W("cancelled", timerInterval, resizeListener)>>
    /\ exitStatus' = "exit0"
    /\ phase' = "Exited"
    /\ UNCHANGED <<variant, durationMinutes, totalSeconds, timeLeftInSeconds,
                   sigintHandler, resizeListener, timerInterval, columns, rows,
                   lastFrame, bellCount, tickFirings, resizes, rin, rout,
                   cursorHidden>>

\* The SIGINT listener of both drivers: show the cursor, write the
\* cancellation message, exit(0). It leaves the interval and the resize
\* listener registered.
SigintHandler ==
    /\ phase \in {"Starting", "Running"}
    /\ sigintHandler
    /\ lastEvent' = "sigint"
    /\ interruptedIn' = phase
    /\ cursorHidden' = FALSE
    /\ finalMessage' = "cancelled"
    /\ written' = <<W("show", timerInterval, resizeListener),
                    W("cancelled", timerInterval, resizeListener)>>
    /\ exitStatus' = "exit0"
    /\ phase' = "Exited"
    /\ UNCHANGED <<variant, durationMinutes, totalSeconds, timeLeftInSeconds,
                   sigintHandler, resizeListener, timerInterval, columns, rows,
                   lastFrame, bellCount, tickFirings, resizes, rin, rout>>

\* SIGINT while no listener is registered (the listener is registered inside
\* the setTimeout callback): Node's default action ends the process by the
\* signal, with nothing written.
SigintDefault ==
    /\ phase \in {"Starting", "Running"}
    /\ ~sigintHandler
    /\ lastEvent' = "sigint"
    /\ interruptedIn' = phase
    /\ written' = <<>>
    /\ exitStatus' = "SIGINT"
    /\ phase' = "Exited"
    /\ UNCHANGED <<variant, durationMinutes, totalSeconds, timeLeftInSeconds,
                   sigintHandler, resizeListener, timerInterval, cursorHidden,
                   columns, rows, lastFrame, finalMessage, bellCount,
                   tickFirings, resizes, rin, rout>>

Next ==
    \/ GraceElapsedIndex
    \/ GraceElapsedResponsive
    \/ TickIndex
    \/ TickResponsive
    \/ Resize
    \/ SigintHandler
    \/ SigintDefault

Spec == Init /\ [][Next]_vars

\* ------------------------------------------- stand-alone calls of drawDisplay
\* The elapsed fractions a caller may pass: num/den from just below 0 to just
\* above 1.
ProgressSet == {<<n, d>> : n \in (0 - 1)..(MaxDen + 1), d \in 1..MaxDen}

RenderInputs ==
    {[variant |-> v, progress |-> p, minutes |-> t[1], seconds |-> t[2],
      cols |-> c, rws |-> r] :
        v \in Variants,
        p \in {q \in ProgressSet : q[1] <= q[2] + 1},
        t \in {<<0, 0>>, <<25, 0>>},
        c \in 0..MaxColumns,
        r \in RowsSet}

RenderInit ==
    /\ rin \in {i \in RenderInputs : i.variant = "responsive" \/ (i.cols = 0 /\ i.rws = 0)}
    /\ rout = NoFrame
    /\ variant = rin.variant
    /\ durationMinutes = 0
    /\ totalSeconds = 0
    /\ timeLeftInSeconds = 0
    /\ phase = "Render"
    /\ sigintHandler = FALSE
    /\ resizeListener = FALSE
    /\ timerInterval = FALSE
    /\ cursorHidden = FALSE
    /\ columns = rin.cols
    /\ rows = rin.rws
    /\ lastFrame = NoFrame
    /\ written = <<>>
    /\ finalMessage = "none"
    /\ bellCount = 0
    /\ exitStatus = "running"
    /\ tickFirings = 0
    /\ resizes = 0
    /\ interruptedIn = "none"
    /\ lastEvent = "main"

\* drawDisplay(progress, minutes, seconds) of the responsive program
RenderResponsive ==
    /\ phase = "Render"
    /\ rin.variant = "responsive"
    /\ rout = NoFrame
    /\ rout' = drawDisplay(rin.progress, rin.minutes, rin.seconds, columns, rows)
    /\ UNCHANGED <<driverVars, rin>>

\* drawDisplay(progress, minutes, seconds) of src/index.js
RenderIndex ==
    /\ phase = "Render"
    /\ rin.variant = "index"
    /\ rout = NoFrame
    /\ rout' = drawDisplayIndex(rin.progress, rin.minutes, rin.seconds)
    /\ UNCHANGED <<driverVars, rin>>

RenderNext ==
    \/ RenderResponsive
    \/ RenderIndex

SpecRender == RenderInit /\ [][RenderNext]_vars

\* ----------------------------------- the responsive driver on any duration
\* The handlers of main close over totalSeconds and timeLeftInSeconds only.
\* Here they run on every duration from 1 second up, not only on the whole
\* minutes main computes from the command line, on an 80x24 terminal among
\* others.
CoreViewports == {<<80, 24>>, <<0, 0>>, <<12, 3>>}

CoreInit ==
    /\ variant = "responsive"
    /\ durationMinutes = 0
    /\ totalSeconds \in 1..MaxTotal
    /\ timeLeftInSeconds = totalSeconds
    /\ phase = "Starting"
    /\ sigintHandler = FALSE
    /\ resizeListener = FALSE
    /\ timerInterval = FALSE
    /\ cursorHidden = FALSE
    /\ \E v \in CoreViewports : columns = v[1] /\ rows = v[2]
    /\ lastFrame = NoFrame
    /\ written = <<W("status", FALSE, FALSE)>>
    /\ finalMessage = "none"
    /\ bellCount = 0
    /\ exitStatus = "running"
    /\ tickFirings = 0
    /\ resizes = 0
    /\ interruptedIn = "none"
    /\ lastEvent = "main"
    /\ NoRender

CoreNext ==
    \/ GraceElapsedResponsive
    \/ TickResponsive
    \/ Resize
    \/ SigintHandler
    \/ SigintDefault

SpecCore == CoreInit /\ [][CoreNext]_vars

\* ------------------------------- stand-alone calls of the layout functions
\* Terminal sizes: every small one, and some wide enough for scales 2 and 3.
DisplayColumns == (0..MaxDisplayColumns) \cup {80, 105, 120}
DisplayRows == 0..MaxDisplayRows

\* Times within the contract of drawDisplay: minutes >= 0, seconds in 0..59.
DisplayTimes == {<<0, 0>>, <<25, 0>>, <<67, 8>>, <<99, 59>>, <<100, 0>>}

DisplayInputs ==
    {[kind |-> "display", progress |-> p, minutes |-> t[1], seconds |-> t[2],
      cols |-> c, rws |-> r] :
        p \in {<<0, 1>>, <<1, 1>>},
        t \in DisplayTimes,
        c \in DisplayColumns,
        r \in DisplayRows}

\* Time strings of 1 to 6 characters; together they use every glyph.
TimeStrings ==
    {TimeString(t[1], t[2]) : t \in DisplayTimes \cup {<<12, 34>>}}
    \cup {<<Colon>>, <<1, 2>>}

RowsInputs ==
    {[kind |-> "rows", timeString |-> ts, scale |-> sc] :
        ts \in TimeStrings, sc \in 1..MaxScale}

DisplayInit ==
    /\ rin \in DisplayInputs \cup RowsInputs
    /\ rout = NoFrame
    /\ variant = "responsive"
    /\ durationMinutes = 0
    /\ totalSeconds = 0
    /\ timeLeftInSeconds = 0
    /\ phase = "Render"
    /\ sigintHandler = FALSE
    /\ resizeListener = FALSE
    /\ timerInterval = FALSE
    /\ cursorHidden = FALSE
    /\ columns = (IF rin.kind = "display" THEN rin.cols ELSE 0)
    /\ rows = (IF rin.kind = "display" THEN rin.rws ELSE 0)
    /\ lastFrame = NoFrame
    /\ written = <<>>
    /\ finalMessage = "none"
    /\ bellCount = 0
    /\ exitStatus = "running"
    /\ tickFirings = 0
    /\ resizes = 0
    /\ interruptedIn = "none"
    /\ lastEvent = "main"

\* drawDisplay(progress, minutes, seconds), with the text it writes
RenderDisplay ==
    /\ rin.kind = "display"
    /\ rout = NoFrame
    /\ LET frame == drawDisplay(rin.progress, rin.minutes, rin.seconds, columns, rows)
       IN rout' = [kind |-> "display",
                   frame |-> frame,
                   lines |-> IF frame.threw THEN <<>> ELSE FullDisplay(frame)]
    /\ UNCHANGED <<driverVars, rin>>

\* generateScaledTimerRows(timeString, scale)
GenerateRows ==
    /\ rin.kind = "rows"
    /\ rout = NoFrame
    /\ rout' = [kind |-> "rows",
                rows |-> generateScaledTimerRows(rin.timeString, rin.scale)]
    /\ UNCHANGED <<driverVars, rin>>

DisplayNext ==
    \/ RenderDisplay
    \/ GenerateRows

SpecDisplay == DisplayInit /\ [][DisplayNext]_vars

\* ------------------------------------------- main up to the setTimeout call
ArgChars == {"0", "1", "7", "-", " ", ".", "a"}

RECURSIVE StringsUpTo(_)
StringsUpTo(n) ==
    IF n = 0 THEN {<<>>}
    ELSE LET shorter == StringsUpTo(n - 1)
         IN shorter \cup {Append(str, c) : str \in shorter, c \in ArgChars}

\* process.argv.slice(2): no argument, or one of up to MaxArgLength characters
ArgvInputs == {<<>>} \cup {<<str>> : str \in StringsUpTo(MaxArgLength)}

ArgsInit ==
    /\ rin \in {[kind |-> "argv", args |-> a] : a \in ArgvInputs}
    /\ rout = NoFrame
    /\ variant \in Variants
    /\ durationMinutes = 0
    /\ totalSeconds = 0
    /\ timeLeftInSeconds = 0
    /\ phase = "Launch"
    /\ sigintHandler = FALSE
    /\ resizeListener = FALSE
    /\ timerInterval = FALSE
    /\ cursorHidden = FALSE
    /\ columns = 0
    /\ rows = 0
    /\ lastFrame = NoFrame
    /\ written = <<>>
    /\ finalMessage = "none"
    /\ bellCount = 0
    /\ exitStatus = "running"
    /\ tickFirings = 0
    /\ resizes = 0
    /\ interruptedIn = "none"
    /\ lastEvent = "launch"

\* main: read the duration, warn about an argument that is replaced by the
\* default, compute totalSeconds and timeLeftInSeconds, print the status line.
Main ==
    /\ phase = "Launch"
    /\ LET parsed == IF Len(rin.args) = 0 THEN NaN ELSE parseInt(rin.args[1])
           invalid == parsed.nan \/ parsed.value <= 0
           warned == invalid /\ Len(rin.args) > 0
       IN /\ rout' = [kind |-> "main", warned |-> warned]
          /\ written' = (IF warned THEN <<W("invalid", FALSE, FALSE)>> ELSE <<>>)
                        \o <<W("status", FALSE, FALSE)>>
    /\ durationMinutes' = ParseDuration(rin.args)
    /\ totalSeconds' = durationMinutes' * 60
    /\ timeLeftInSeconds' = totalSeconds'
    /\ phase' = "Starting"
    /\ lastEvent' = "main"
    /\ UNCHANGED <<variant, sigintHandler, resizeListener, timerInterval,
                   cursorHidden, columns, rows, lastFrame, finalMessage,
                   bellCount, exitStatus, tickFirings, resizes, interruptedIn, rin>>

ArgsNext == Main

SpecArgs == ArgsInit /\ [][ArgsNext]_vars

\* ----------------------------------------- the drivers without an interrupt
\* A run of up to MaxMinutes minutes in which no SIGINT is delivered: the
\* grace timer and the interval timer fire whenever they are pending.
LiveInit == Init /\ durationMinutes <= MaxMinutes

GraceElapsed == GraceElapsedIndex \/ GraceElapsedResponsive

Tick == TickIndex \/ TickResponsive

LiveNext ==
    \/ GraceElapsedIndex
    \/ GraceElapsedResponsive
    \/ TickIndex
    \/ TickResponsive
    \/ Resize

SpecLive ==
    /\ LiveInit
    /\ [][LiveNext]_vars
    /\ WF_vars(GraceElapsed)
    /\ WF_vars(Tick)

\* ================================================================== claims
\* The texts a handler run wrote, in order.
Texts == [i \in 1..Len(written) |-> written[i].text]

\* The value of a sequence of decimal digits.
RECURSIVE DigitsValue(_)
DigitsValue(d) ==
    IF Len(d) = 0 THEN 0
    ELSE 10 * DigitsValue(SubSeq(d, 1, Len(d) - 1)) + d[Len(d)]

ColonAt(ts) == CHOOSE i \in 1..Len(ts) : ts[i] = Colon
ShownMinutes(ts) == DigitsValue(SubSeq(ts, 1, ColonAt(ts) - 1))
ShownSeconds(ts) == DigitsValue(SubSeq(ts, ColonAt(ts) + 1, Len(ts)))

\* C1: the time left stays within 0..totalSeconds, only a tick changes it,
\* and a tick that changes it takes exactly one second off.
C1_RemainingBounded ==
    [][/\ 0 <= timeLeftInSeconds /\ timeLeftInSeconds <= totalSeconds
       /\ 0 <= timeLeftInSeconds' /\ timeLeftInSeconds' <= totalSeconds'
       /\ timeLeftInSeconds' # timeLeftInSeconds =>
             /\ timeLeftInSeconds' = timeLeftInSeconds - 1
             /\ lastEvent' = "tick"]_vars

C1_Witness ==
    /\ phase = "Exited"
    /\ interruptedIn = "Running"
    /\ resizes >= 1
    /\ tickFirings >= 2
    /\ timeLeftInSeconds = totalSeconds - tickFirings

\* C2 (as claimed): in the responsive driver the run completes on the tick
\* firing that brings the time left to 0, after exactly totalSeconds firings.
C2_CompletesOnZeroTick ==
    (variant = "responsive" /\ finalMessage = "completed")
        => tickFirings = totalSeconds

\* C3: a resize leaves the time left alone, and after k <= totalSeconds tick
\* firings the time left is totalSeconds - k, however many resizes occurred.
C3_ResizeLeavesTimer ==
    [][/\ lastEvent' = "resize" => timeLeftInSeconds' = timeLeftInSeconds
       /\ tickFirings' <= totalSeconds' =>
             timeLeftInSeconds' = totalSeconds' - tickFirings']_vars

C3_Witness ==
    /\ variant = "responsive"
    /\ phase = "Running"
    /\ lastEvent = "resize"
    /\ resizes >= 2
    /\ tickFirings >= 2
    /\ Texts = <<"frame">>

\* C4 (as claimed): an interrupt during Starting ends the run with the
\* cancellation message and exit code 0, no tick having run.
C4_InterruptWhileStartingIsClean ==
    (phase = "Exited" /\ interruptedIn = "Starting")
        => /\ finalMessage = "cancelled"
           /\ exitStatus = "exit0"
           /\ tickFirings = 0

\* C5: an interrupt while Running cancels: the cursor is shown, the
\* cancellation message is the last write, the exit code is 0, no bell was
\* written, and nothing happens afterwards.
Cancelled ==
    /\ phase = "Exited"
    /\ finalMessage = "cancelled"
    /\ exitStatus = "exit0"
    /\ ~cursorHidden
    /\ bellCount = 0
    /\ Texts = <<"show", "cancelled">>

C5_InterruptWhileRunningCancels ==
    [][/\ (phase = "Running" /\ lastEvent' = "sigint") => interruptedIn' = "Running"
       /\ interruptedIn' = "Running" => Cancelled'
       /\ interruptedIn = "Running" => UNCHANGED vars]_vars

C5_Witness ==
    /\ variant = "responsive"
    /\ interruptedIn = "Running"
    /\ timeLeftInSeconds = 0
    /\ finalMessage = "cancelled"

\* C6 (as claimed): when the cancellation text is written, neither the
\* interval nor the resize listener is registered any more.
C6_UnregisteredBeforeCancelWrite ==
    \A i \in 1..Len(written) :
        written[i].text = "cancelled"
            => ~written[i].timerInterval /\ ~written[i].resizeListener

\* C7: completion clears the interval and the resize listener, shows the
\* cursor, then writes the completion message with the bell and exits with
\* code 0; the bell is written at most once and only by completion, when the
\* time left is 0.
C7_CompletionAndBell ==
    /\ bellCount <= 1
    /\ bellCount = 1 <=> finalMessage = "completed"
    /\ finalMessage = "completed" =>
          /\ phase = "Exited"
          /\ exitStatus = "exit0"
          /\ lastEvent = "tick"
          /\ timeLeftInSeconds = 0
          /\ ~timerInterval /\ ~resizeListener /\ ~cursorHidden
          /\ Len(written) >= 2
          /\ written[Len(written) - 1] = W("show", FALSE, FALSE)
          /\ written[Len(written)] = W("completed", FALSE, FALSE)

C7_Witness ==
    /\ variant = "responsive"
    /\ finalMessage = "completed"
    /\ bellCount = 1
    /\ resizes >= 1

\* C8: the frame on the terminal shows the current time left as minutes and
\* seconds (seconds within 0..59), the elapsed fraction of the current time
\* left, and (responsive driver) was laid out for the current terminal size.
FrameCurrent(f) ==
    /\ ShownMinutes(f.timeString) * 60 + ShownSeconds(f.timeString) = timeLeftInSeconds
    /\ ShownSeconds(f.timeString) \in 0..59
    /\ f.progress[1] * totalSeconds = (totalSeconds - timeLeftInSeconds) * f.progress[2]
    /\ variant = "responsive" =>
          /\ f.terminalWidth = (IF columns # 0 THEN columns ELSE DefaultColumns)
          /\ f.terminalHeight = (IF rows # 0 THEN rows ELSE DefaultRows)

C8_FrameIsCurrent == lastFrame # NoFrame => FrameCurrent(lastFrame)

C8_Witness ==
    /\ variant = "responsive"
    /\ lastEvent = "resize"
    /\ Texts = <<"frame">>
    /\ tickFirings >= 1
    /\ timeLeftInSeconds % 60 # 0
    /\ lastFrame.terminalWidth = 120

\* C9: for an elapsed fraction within [0, 1] the bar has between 0 and
\* barWidth filled cells, filled and empty cells add up to barWidth >= 10,
\* fraction 0 fills none and fraction 1 fills all.
C9_BarCells ==
    (rout # NoFrame /\ 0 <= rin.progress[1] /\ rin.progress[1] <= rin.progress[2])
        => /\ ~rout.threw
           /\ rout.barWidth >= MinBarWidth
           /\ 0 <= rout.filledWidth /\ rout.filledWidth <= rout.barWidth
           /\ rout.emptyWidth >= 0
           /\ rout.filledWidth + rout.emptyWidth = rout.barWidth
           /\ rin.progress[1] = 0 => rout.filledWidth = 0
           /\ rin.progress[1] = rin.progress[2] => rout.filledWidth = rout.barWidth

C9_Witness ==
    /\ rout # NoFrame
    /\ rin.variant = "responsive"
    /\ rin.progress = <<5, 12>>
    /\ rout.barWidth = 35
    /\ rout.filledWidth = 15
    /\ rout.emptyWidth = 20

\* C10 (as claimed): for any elapsed fraction, also one just outside [0, 1],
\* drawDisplay does not fail and the filled count is clamped to 0..barWidth.
C10_FilledClamped ==
    rout # NoFrame
        => /\ ~rout.threw
           /\ 0 <= rout.filledWidth /\ rout.filledWidth <= rout.barWidth
           /\ rout.emptyWidth >= 0

\* C11: a tick never lowers the number of filled cells of a bar of the same
\* width; the initial frame has none filled, the frame for time left 0 has
\* all barWidth filled, and the k-th tick shows totalSeconds - k (4,3,2,1,0
\* for 5 seconds).
C11_BarNeverShrinks ==
    [][/\ (lastEvent' = "tick" /\ timeLeftInSeconds' # timeLeftInSeconds
            /\ lastFrame'.barWidth = lastFrame.barWidth)
          => /\ lastFrame'.filledWidth >= lastFrame.filledWidth
             /\ timeLeftInSeconds' = totalSeconds - tickFirings'
             /\ ShownMinutes(lastFrame'.timeString) * 60
                  + ShownSeconds(lastFrame'.timeString) = timeLeftInSeconds'
       /\ lastEvent' = "grace" => lastFrame'.filledWidth = 0
       /\ (lastFrame' # NoFrame /\ timeLeftInSeconds' = 0)
          => lastFrame'.filledWidth = lastFrame'.barWidth]_vars

C11_Witness ==
    /\ totalSeconds = 5
    /\ columns = 80 /\ rows = 24
    /\ resizes = 0
    /\ tickFirings = 5
    /\ timeLeftInSeconds = 0
    /\ lastFrame.barWidth = 70
    /\ lastFrame.filledWidth = 70

\* C12: on every terminal with at least one column and one row the digit
\* scale is at least 1; it is 1 on a 1x1 terminal and whenever there are
\* fewer than 4 rows.
C12_ScaleAtLeastOne ==
    (rout.kind = "display" /\ rin.cols >= 1 /\ rin.rws >= 1)
        => /\ rout.frame.scale \in Nat
           /\ rout.frame.scale >= 1
           /\ rin.rws < 4 => rout.frame.scale = 1
           /\ (rin.cols = 1 /\ rin.rws = 1) => rout.frame.scale = 1

C12_Witness ==
    /\ rout.kind = "display"
    /\ rin.cols = 120 /\ rin.rws = 3
    /\ rout.frame.scale = 1

\* C13: the digit block of an n-character time string at scale s has 5s rows
\* of 5s*n + 2s*(n-1) cells; cell (i, j) of character k is the glyph's cell
\* (ceil(i/s), ceil(j/s)), and exactly 2s spaces separate adjacent characters,
\* with none after the last.
C13_DigitBlock ==
    rout.kind = "rows" =>
        LET s == rin.scale
            ts == rin.timeString
            n == Len(ts)
            R == rout.rows
        IN /\ Len(R) = 5 * s
           /\ \A i \in 1..Len(R) :
                 /\ Len(R[i]) = 5 * s * n + 2 * s * (n - 1)
                 /\ \A k \in 1..n :
                       /\ \A j \in 1..(5 * s) :
                             R[i][(k - 1) * 7 * s + j]
                                = ASCII_NUMBERS[ts[k]][((i - 1) \div s) + 1][((j - 1) \div s) + 1]
                       /\ k < n => \A j \in 1..(2 * s) :
                                      R[i][(k - 1) * 7 * s + 5 * s + j] = 0

C13_Witness ==
    /\ rout.kind = "rows"
    /\ rin.scale = 3
    /\ Len(rin.timeString) = 6
    /\ Len(rout.rows) = 15
    /\ Len(rout.rows[1]) = 120

\* C18 (as claimed): on a terminal of at least 35 columns and 9 rows the
\* frame fits: no line is longer than the terminal is wide, and the frame has
\* no more lines than the terminal has rows.
C18_FrameFits ==
    (rout.kind = "display" /\ rin.cols >= 35 /\ rin.rws >= 9
        /\ rin.minutes >= 0 /\ rin.seconds \in 0..59)
        => /\ ~rout.frame.threw
           /\ Len(rout.lines) = 2 + 5 * rout.frame.scale
           /\ Len(rout.lines) <= rin.rws
           /\ \A i \in 1..Len(rout.lines) : Len(rout.lines[i]) <= rin.cols

\* C14: the countdown always gets a positive whole number of seconds and
\* starts with all of it left; no argument, an argument that does not begin
\* with a number (white space and a sign apart), and a zero or negative
\* integer give 1500 seconds, a positive integer m gives 60 * m.
BeginsWithNumber(str) ==
    \E i \in 1..Len(str) :
        /\ IsDigit(str[i])
        /\ \A j \in 1..(i - 1) : str[j] = " " \/ (j = i - 1 /\ str[j] \in {"-", "+"})

IsIntegerLiteral(str) ==
    LET body == IF Len(str) > 0 /\ str[1] \in {"-", "+"} THEN Tail(str) ELSE str
    IN Len(body) > 0 /\ \A i \in 1..Len(body) : IsDigit(body[i])

LiteralValue(str) ==
    LET body == IF str[1] \in {"-", "+"} THEN Tail(str) ELSE str
        magnitude == DigitsValue([i \in 1..Len(body) |-> DigitOf(body[i])])
    IN IF str[1] = "-" THEN 0 - magnitude ELSE magnitude

C15_EventuallyCompleted ==
    /\ [](phase # "Exited" => ENABLED (GraceElapsed \/ Tick))
    /\ <>(/\ phase = "Exited"
          /\ finalMessage = "completed"
          /\ exitStatus = "exit0"
          /\ timeLeftInSeconds = 0)

C15_Witness ==
    /\ variant = "responsive"
    /\ totalSeconds = 60
    /\ phase = "Exited"
    /\ finalMessage = "completed"
    /\ exitStatus = "exit0"
    /\ resizes = 2
    /\ tickFirings = 61
    /\ interruptedIn = "none"

\* C16: in src/index.js the tick that brings the time left to 0 draws the
\* 00:00 frame and completes in the same handler run (interval cleared,
\* cursor shown, completion message with the bell, exit 0), so the run
\* completes at tick firing number totalSeconds, and no tick handler starts
\* with the time left already at 0.
C16_IndexCompletesInSameTick ==
    [][(variant = "index" /\ lastEvent' = "tick") =>
          /\ timeLeftInSeconds > 0
          /\ timeLeftInSeconds' = 0 =>
                /\ Texts' = <<"frame", "show", "completed">>
                /\ ShownMinutes(lastFrame'.timeString) = 0
                /\ ShownSeconds(lastFrame'.timeString) = 0
                /\ lastFrame'.filledWidth = lastFrame'.barWidth
                /\ ~timerInterval'
                /\ ~cursorHidden'
                /\ finalMessage' = "completed"
                /\ bellCount' = bellCount + 1
                /\ exitStatus' = "exit0"
                /\ phase' = "Exited"
                /\ tickFirings' = totalSeconds
          /\ finalMessage' = "completed" => timeLeftInSeconds' = 0]_vars

C16_Witness ==
    /\ variant = "index"
    /\ totalSeconds = 60
    /\ lastEvent = "tick"
    /\ tickFirings = 60
    /\ timeLeftInSeconds = 0
    /\ finalMessage = "completed"
    /\ Texts = <<"frame", "show", "completed">>
    /\ phase = "Exited"

C19_CursorRestored ==
    /\ cursorHidden => phase = "Running"
    /\ phase = "Starting" => \A i \in 1..Len(written) : Texts[i] \notin {"hide", "show"}
    /\ phase = "Exited" =>
          /\ ~cursorHidden
          /\ finalMessage # "none" =>
                \E i \in 1..Len(written) :
                    /\ Texts[i] = "show"
                    /\ \A j \in (i + 1)..Len(written) : Texts[j] # "hide"
          /\ finalMessage = "none" =>
                /\ interruptedIn = "Starting"
                /\ exitStatus = "SIGINT"
                /\ \A i \in 1..Len(written) : Texts[i] # "hide"

C19_Witness ==
    /\ phase = "Exited"
    /\ interruptedIn = "Running"
    /\ finalMessage = "cancelled"
    /\ tickFirings = 3
    /\ ~cursorHidden
    /\ Texts = <<"show", "cancelled">>

\* C20: a final message ends the run. No step is taken once the completion
\* or the cancellation message has been written; the handler that writes one
\* writes it last, writes exactly one of the two, rings the bell at most
\* once, and the responsive tick that completes leaves the time left and
\* the frame as they were.
FinalTexts == {i \in 1..Len(written) : Texts[i] \in {"completed", "cancelled"}}

C20_TerminalAbsorbing ==
    [][/\ finalMessage = "none"
       /\ phase # "Exited"
       /\ finalMessage' # "none" =>
             /\ phase' = "Exited"
             /\ FinalTexts' = {Len(written')}
             /\ Texts'[Len(written')] = finalMessage'
             /\ bellCount' = (IF finalMessage' = "completed" THEN 1 ELSE 0)
             /\ timeLeftInSeconds' >= 0
             /\ (variant = "responsive" \/ lastEvent' = "sigint") =>
                   /\ timeLeftInSeconds' = timeLeftInSeconds
                   /\ lastFrame' = lastFrame
       /\ finalMessage' = "none" => FinalTexts' = {}]_vars

C20_Witness ==
    /\ variant = "responsive"
    /\ phase = "Exited"
    /\ lastEvent = "tick"
    /\ finalMessage = "completed"
    /\ FinalTexts = {2}
    /\ bellCount = 1
    /\ tickFirings = totalSeconds + 1
    /\ timeLeftInSeconds = 0
    /\ resizes = 1

====
